---- MODULE Spec2Model ----
(***************************************************************************)
(* Smart CRM SaaS: a state-machine model of the REST backend (project      *)
(* endpoints, authentication utilities, backup service and endpoint) and   *)
(* of the browser client (ApiClient, login page, clients page).            *)
(*                                                                         *)
(* Dates are natural numbers (ticks of one clock).  SQL NULL / Python None *)
(* is NULL for integer columns.                                            *)
(***************************************************************************)
EXTENDS Integers, Sequences, FiniteSets, TLC

VARIABLES
    clients,    \* ids of the rows of table "clients"
    users,      \* table "users": id -> [email, hashed_password, role]
    projects,   \* table "projects": id -> row
    now,        \* the clock read by datetime.now() / datetime.utcnow()
    resp,       \* the response of the latest backend handler call
    files,      \* the file system: path -> bytes of the regular file there
    dirs,       \* the file system: paths of the directories
    apiToken,       \* ApiClient.token
    localStorage,   \* the browser's localStorage item 'access_token'
    location,       \* where the browser was last sent ("" before any navigation)
    user,           \* auth-context state `user` (the id of the user, or NULL)
    isLoading,      \* auth-context state `isLoading`
    pageError,      \* LoginPage state `error` ("" for null)
    thrown,         \* what the latest settled client call rejected with ("" if it resolved)
    inflight,       \* the HTTP requests sent and not yet answered
    pageClients,    \* ClientsPage state `clients`: the ids of the clients listed
    totalClients,   \* ClientsPage state `totalClients`
    searchTerm,     \* ClientsPage state `searchTerm`
    pageLoading,    \* ClientsPage state `isLoading`
    loads,          \* the runs of loadClients waiting in their delay, oldest first
    deleteAlerts,   \* the ids for which 'Client deleted successfully' was shown
    aiLoading,      \* AIAssistant state `loading`
    aiError,        \* AIAssistant state `error` ("" for null)
    aiResponse,     \* AIAssistant state `response`: its output_text ("" for null)
    aiRequests,     \* the AI assistant requests sent and not yet settled, oldest first
    formEmail,      \* LoginPage state `email`
    formPassword,   \* LoginPage state `password`
    consoleLog,     \* the calls of console.log made so far
    pUser,          \* providers/AuthProvider state `user`
    pIsLoading,     \* providers/AuthProvider state `isLoading`
    pending,        \* the fetch requests of lib/api/auth.ts not yet answered
    rootSeen,       \* the auth state RootPage's effect last ran with, <<>> before its first run
    rootPushes,     \* the newest router.push calls of RootPage, oldest first
    guardSeen,      \* the auth state withAuth's effect last ran with, <<>> before its first run
    guardPushes,    \* the newest router.push calls of withAuth, oldest first
    mountedAbove,   \* the auth modules whose provider encloses the component calling useAuth
    hookResult,     \* what the component's latest call of useAuth ended with
    atLogout        \* history: the auth context's requests in flight when logout last ran

fsVars == <<files, dirs>>

webVars == <<apiToken, localStorage, location, user, isLoading, pageError,
             thrown, inflight>>

pageVars == <<pageClients, totalClients, searchTerm, pageLoading, loads,
              deleteAlerts>>

aiVars == <<aiLoading, aiError, aiResponse, aiRequests>>

formVars == <<formEmail, formPassword, consoleLog>>

appVars == <<pUser, pIsLoading, pending, rootSeen, rootPushes,
            guardSeen, guardPushes>>

hookVars == <<mountedAbove, hookResult>>

vars == <<clients, users, projects, now, resp, fsVars, webVars, pageVars,
          aiVars, formVars, appVars, hookVars, atLogout>>

----------------------------------------------------------------------------
(* Bounds of the model *)

MaxProjects == 1      \* largest project id of the CRUD specification
MaxTime == 1          \* the clock runs 0..MaxTime
MaxRows == 15         \* largest project id of the listing specification
MaxLimit == 10        \* largest `limit` requested in the listing specification

NULL == -1

ProjectStatus == {"planning", "in_progress", "on_hold", "completed", "cancelled"}
StatusInputs == {"in_progress", "completed", "cancelled"}
Times == 0..MaxTime
EndDateInputs == {NULL, 0}
ClientIdInputs == {1, 2}
DeveloperIdInputs == {NULL, 1, 2}

NoResp == [op |-> "none"]

----------------------------------------------------------------------------
(* Helpers *)

MaxOf(S) == IF S = {} THEN 0 ELSE CHOOSE x \in S : \A y \in S : y <= x

\* the elements of a set of positive integers in ascending order
SortedSeq(S) == SelectSeq([i \in 1..MaxOf(S) |-> i], LAMBDA i : i \in S)

SeqToSet(s) == {s[i] : i \in 1..Len(s)}

Min2(a, b) == IF a < b THEN a ELSE b

\* SQL comparison `a < b`: NULL on either side is not true
SqlLt(a, b) == a # NULL /\ b # NULL /\ a < b

----------------------------------------------------------------------------
(* Table "projects" and the handlers of project_endpoints.py.              *)
(* A row keeps client_id, developer_id, status, end_date, actual_end_date; *)
(* the text columns (title, description, priority, budget) carry no logic  *)
(* of the handlers modelled here and are left out, and with them the       *)
(* `search` and `priority` filters of get_projects.                        *)

UNSET == -2                  \* a field the request payload does not supply
UnsetStatus == "UNSET"

Row(client_id, developer_id, status, end_date, actual_end_date) ==
    [client_id |-> client_id, developer_id |-> developer_id, status |-> status,
     end_date |-> end_date, actual_end_date |-> actual_end_date]

\* Project.is_overdue, the derived attribute copied into every response
Project_is_overdue(row, t) ==
    /\ row.end_date # NULL
    /\ row.end_date < t
    /\ row.status \notin {"completed", "cancelled"}

\* OverdueFilter with the status test forgotten
OverdueFilter_DateOnly(row, t) == SqlLt(row.end_date, t)

\* the is_overdue filter of get_projects:
\*   and_(Project.end_date < current_time,
\*        Project.status.notin_([COMPLETED, CANCELLED]))
OverdueFilter(row, t) ==
    /\ SqlLt(row.end_date, t)
    /\ row.status \notin {"completed", "cancelled"}

\* project.__dict__.copy() plus the derived fields
Enhanced(id, row, t) ==
    [id |-> id, client_id |-> row.client_id, developer_id |-> row.developer_id,
     status |-> row.status, end_date |-> row.end_date,
     actual_end_date |-> row.actual_end_date,
     is_overdue |-> Project_is_overdue(row, t)]

\* the id the database gives a new row: SQLite's INTEGER PRIMARY KEY without
\* AUTOINCREMENT takes the largest id in the table plus one
NextProjectId(tbl) == MaxOf(DOMAIN tbl) + 1

\* the filters of get_projects; a filter that is None/empty/False is not applied
FilteredIds(tbl, status, is_overdue, t) ==
    {id \in DOMAIN tbl :
        /\ (status # "" => tbl[id].status = status)
        /\ (is_overdue => OverdueFilter(tbl[id], t))}

\* Paginate with the offset forgotten
Paginate_NoOffset(rows, skip, limit) == SubSeq(rows, 1, Min2(Len(rows), limit))

\* query.offset(skip).limit(limit).all() over the matching rows
Paginate(rows, skip, limit) ==
    IF skip >= Len(rows) THEN <<>>
    ELSE SubSeq(rows, skip + 1, Min2(Len(rows), skip + limit))

\* the body get_projects returns
ListBody(tbl, skip, limit, status, is_overdue, t) ==
    LET ids == SortedSeq(FilteredIds(tbl, status, is_overdue, t))
        page == Paginate(ids, skip, limit)
    IN [projects |-> [i \in 1..Len(page) |-> Enhanced(page[i], tbl[page[i]], t)],
        total |-> Len(ids),
        page |-> (skip \div limit) + 1,
        per_page |-> limit]

\* CreateOutcome with the client lookup forgotten
CreateOutcome_NoClientCheck(data, cl, us) ==
    IF data.developer_id # NULL /\ data.developer_id \notin DOMAIN us
    THEN [status |-> 404, detail |-> "Developer not found"]
    ELSE [status |-> 201, detail |-> ""]

\* what create_project decides before it inserts
CreateOutcome(data, cl, us) ==
    IF data.client_id \notin cl
    THEN [status |-> 404, detail |-> "Client not found"]
    ELSE IF data.developer_id # NULL /\ data.developer_id \notin DOMAIN us
    THEN [status |-> 404, detail |-> "Developer not found"]
    ELSE [status |-> 201, detail |-> ""]

Resp(op, status, detail, id, req, body) ==
    [op |-> op, status |-> status, detail |-> detail, id |-> id, req |-> req,
     body |-> body, at |-> now]

\* POST /projects/
create_project(data, cap) ==
    LET out == CreateOutcome(data, clients, users)
        id == NextProjectId(projects)
    IN /\ out.status = 201 => id <= cap
       /\ IF out.status = 201
          THEN /\ projects' = (id :> Row(data.client_id, data.developer_id,
                                          data.status, data.end_date, NULL))
                               @@ projects
               /\ resp' = Resp("create_project", 201, "", id, data.client_id,
                               Enhanced(id, projects'[id], now))
          ELSE /\ projects' = projects
               /\ resp' = Resp("create_project", out.status, out.detail, NULL,
                               data.client_id, <<>>)
       /\ UNCHANGED <<clients, users, now, fsVars, webVars, pageVars, aiVars, formVars, appVars, hookVars, atLogout>>

\* GET /projects/
get_projects(skip, limit, status, is_overdue) ==
    /\ resp' = Resp("get_projects", 200, "", NULL,
                    [skip |-> skip, limit |-> limit, status |-> status,
                     is_overdue |-> is_overdue],
                    ListBody(projects, skip, limit, status, is_overdue, now))
    /\ UNCHANGED <<clients, users, projects, now, fsVars, webVars, pageVars, aiVars, formVars, appVars, hookVars, atLogout>>

\* GET /projects/{project_id}
get_project(project_id) ==
    /\ IF project_id \in DOMAIN projects
       THEN resp' = Resp("get_project", 200, "", project_id, project_id,
                         Enhanced(project_id, projects[project_id], now))
       ELSE resp' = Resp("get_project", 404, "Project not found", project_id,
                         project_id, <<>>)
    /\ UNCHANGED <<clients, users, projects, now, fsVars, webVars, pageVars, aiVars, formVars, appVars, hookVars, atLogout>>

\* UpdatedRow without exclude_unset: a field the payload leaves out is
\* written as None
UpdatedRow_NoExcludeUnset(row, data, t) ==
    LET set == [row EXCEPT
                  !.status = IF data.status = UnsetStatus THEN @ ELSE data.status,
                  !.end_date = IF data.end_date = UNSET THEN NULL ELSE data.end_date,
                  !.developer_id = IF data.developer_id = UNSET THEN NULL
                                   ELSE data.developer_id]
    IN IF data.status = "completed" /\ set.actual_end_date = NULL
       THEN [set EXCEPT !.actual_end_date = t]
       ELSE set

\* the row after update_project applied the payload to it
UpdatedRow(row, data, t) ==
    LET set == [row EXCEPT
                  !.status = IF data.status = UnsetStatus THEN @ ELSE data.status,
                  !.end_date = IF data.end_date = UNSET THEN @ ELSE data.end_date,
                  !.developer_id = IF data.developer_id = UNSET THEN @
                                   ELSE data.developer_id]
    IN IF data.status = "completed" /\ set.actual_end_date = NULL
       THEN [set EXCEPT !.actual_end_date = t]
       ELSE set

\* PUT /projects/{project_id}
update_project(project_id, data) ==
    /\ IF project_id \notin DOMAIN projects
       THEN /\ resp' = Resp("update_project", 404, "Project not found",
                            project_id, data, <<>>)
            /\ projects' = projects
       ELSE IF /\ data.developer_id \notin {UNSET, NULL}
               /\ data.developer_id \notin DOMAIN users
       THEN /\ resp' = Resp("update_project", 404, "Developer not found",
                            project_id, data, <<>>)
            /\ projects' = projects
       ELSE /\ projects' = [projects EXCEPT
                              ![project_id] = UpdatedRow(@, data, now)]
            /\ resp' = Resp("update_project", 200, "", project_id, data,
                            Enhanced(project_id, projects'[project_id], now))
    /\ UNCHANGED <<clients, users, now, fsVars, webVars, pageVars, aiVars, formVars, appVars, hookVars, atLogout>>

\* the table after delete_project: db.delete(project); db.commit()
DeletedFrom(tbl, project_id) ==
    [id \in DOMAIN tbl \ {project_id} |-> tbl[id]]

\* DELETE /projects/{project_id}
delete_project(project_id) ==
    /\ IF project_id \notin DOMAIN projects
       THEN /\ resp' = Resp("delete_project", 404, "Project not found",
                            project_id, project_id, <<>>)
            /\ projects' = projects
       ELSE /\ projects' = DeletedFrom(projects, project_id)
            /\ resp' = Resp("delete_project", 204, "", project_id, project_id,
                            <<>>)
    /\ UNCHANGED <<clients, users, now, fsVars, webVars, pageVars, aiVars, formVars, appVars, hookVars, atLogout>>

\* POST /projects/{project_id}/complete
complete_project(project_id) ==
    /\ IF project_id \notin DOMAIN projects
       THEN /\ resp' = Resp("complete_project", 404, "Project not found",
                            project_id, project_id, <<>>)
            /\ projects' = projects
       ELSE /\ projects' = [projects EXCEPT
                              ![project_id] = [@ EXCEPT !.status = "completed",
                                                        !.actual_end_date = now]]
            /\ resp' = Resp("complete_project", 200, "", project_id, project_id,
                            Enhanced(project_id, projects'[project_id], now))
    /\ UNCHANGED <<clients, users, now, fsVars, webVars, pageVars, aiVars, formVars, appVars, hookVars, atLogout>>

\* the relationships of Client declared with cascade="all, delete-orphan":
\* deleting a Client through the session deletes the rows they hold
ClientCascade == {"projects", "invoices", "history", "notes"}

\* table "projects" after the session deleted client client_id
ProjectsAfterClientDelete(tbl, client_id) ==
    IF "projects" \in ClientCascade
    THEN LET kept == {id \in DOMAIN tbl : tbl[id].client_id # client_id}
         IN [id \in kept |-> tbl[id]]
    ELSE tbl

\* DELETE /clients/{client_id}
delete_client(client_id) ==
    /\ IF client_id \notin clients
       THEN /\ resp' = Resp("delete_client", 404, "Client not found",
                            client_id, client_id, <<>>)
            /\ UNCHANGED <<clients, projects>>
       ELSE /\ clients' = clients \ {client_id}
            /\ projects' = ProjectsAfterClientDelete(projects, client_id)
            /\ resp' = Resp("delete_client", 204, "", client_id, client_id, <<>>)
    /\ UNCHANGED <<users, now, fsVars, webVars, pageVars, aiVars, formVars, appVars,
                   hookVars, atLogout>>

\* time passes
Tick ==
    /\ now < MaxTime
    /\ now' = now + 1
    /\ UNCHANGED <<clients, users, projects, resp, fsVars, webVars, pageVars, aiVars, formVars, appVars, hookVars, atLogout>>

----------------------------------------------------------------------------
(* The file system, services/backup_service.py and backup_endpoints.py.    *)
(* The bytes of the database file are a version number that every commit   *)
(* raises.  settings.DATABASE_URL is "sqlite:///" followed by the path of  *)
(* the file; replace("sqlite:///", "") leaves that path.                   *)

MaxVersion == 1       \* the database file is rewritten at most this often

DbParent == "."
DbStem == "smart_crm"
DbSuffix == ".db"
DbPath == DbParent \o "/" \o DbStem \o DbSuffix     \* db_path

Roles == {"admin", "manager", "developer", "user", "viewer"}

Digit(n) ==
    CASE n = 0 -> "0" [] n = 1 -> "1" [] n = 2 -> "2" [] n = 3 -> "3"
      [] n = 4 -> "4" [] n = 5 -> "5" [] n = 6 -> "6" [] n = 7 -> "7"
      [] n = 8 -> "8" [] n = 9 -> "9"

TwoDigits(n) == Digit((n \div 10) % 10) \o Digit(n % 10)

\* datetime.now().strftime('%Y%m%d_%H%M%S'); tick t of the clock is the
\* second t of 2025-07-12 12:00
Timestamp(t) ==
    "20250712_12" \o TwoDigits((t \div 60) % 60) \o TwoDigits(t % 60)

\* BackupFileName with the suffix forgotten
BackupFileName_NoSuffix(t) == DbStem \o "_backup_" \o Timestamp(t)

\* backup_filename = f"{db_path.stem}_backup_{timestamp}{db_path.suffix}"
BackupFileName(t) == DbStem \o "_backup_" \o Timestamp(t) \o DbSuffix

BackupDir == DbParent \o "/backups"                 \* db_path.parent / "backups"

\* shutil.copy2(src, dst): dst holds the bytes of src afterwards
CopyFile(fl, src, dst) ==
    [p \in DOMAIN fl \cup {dst} |-> IF p = dst THEN fl[src] ELSE fl[p]]

\* create_database_backup that makes the directory before it looks for the file
create_database_backup_MkdirFirst(fl, ds, t) ==
    IF DbPath \notin DOMAIN fl
    THEN [raised |-> TRUE,
          error |-> "Database file not found at " \o DbPath,
          files |-> fl, dirs |-> ds \cup {BackupDir}, path |-> ""]
    ELSE LET backup_path == BackupDir \o "/" \o BackupFileName(t)
         IN [raised |-> FALSE, error |-> "",
             files |-> CopyFile(fl, DbPath, backup_path),
             dirs |-> ds \cup {BackupDir}, path |-> backup_path]

\* create_database_backup(): what it raises or returns, and the file system
\* it leaves
create_database_backup(fl, ds, t) ==
    IF DbPath \notin DOMAIN fl
    THEN [raised |-> TRUE,
          error |-> "Database file not found at " \o DbPath,
          files |-> fl, dirs |-> ds, path |-> ""]
    ELSE IF BackupDir \in DOMAIN fl
    THEN [raised |-> TRUE, error |-> "File exists: " \o BackupDir,
          files |-> fl, dirs |-> ds, path |-> ""]
    ELSE LET backup_path == BackupDir \o "/" \o BackupFileName(t)
         IN [raised |-> FALSE, error |-> "",
             files |-> CopyFile(fl, DbPath, backup_path),
             dirs |-> ds \cup {BackupDir}, path |-> backup_path]

\* NotAdmin that lets managers through as well
NotAdmin_ManagersToo(role) == role \notin {"admin", "manager"}

\* if current_user.role != "admin"
NotAdmin(role) == role # "admin"

\* POST /backup, called by an authenticated user of the given role
trigger_database_backup(role) ==
    /\ IF NotAdmin(role)
       THEN /\ resp' = Resp("trigger_database_backup", 403,
                            "Only administrators can trigger backups.", NULL,
                            role, "")
            /\ UNCHANGED fsVars
       ELSE LET out == create_database_backup(files, dirs, now)
            IN /\ files' = out.files
               /\ dirs' = out.dirs
               /\ resp' = IF out.raised
                          THEN Resp("trigger_database_backup", 500,
                                    "Failed to create database backup: "
                                        \o out.error,
                                    NULL, role, "")
                          ELSE Resp("trigger_database_backup", 200,
                                    "Database backup created successfully",
                                    NULL, role, out.path)
    /\ UNCHANGED <<clients, users, projects, now, webVars, pageVars, aiVars, formVars, appVars, hookVars, atLogout>>

\* a handler commits: the engine rewrites the database file, creating it
\* when it is not there
DbCommit ==
    /\ IF DbPath \in DOMAIN files
       THEN /\ files[DbPath] < MaxVersion
            /\ files' = [files EXCEPT ![DbPath] = @ + 1]
       ELSE files' = (DbPath :> 0) @@ files
    /\ UNCHANGED <<clients, users, projects, now, resp, dirs, webVars, pageVars, aiVars, formVars, appVars, hookVars, atLogout>>

NoFiles == [p \in {} |-> 0]
InitialFiles == (DbPath :> 0)

UserRow(email, hashed_password, role) ==
    [email |-> email, hashed_password |-> hashed_password, role |-> role]

----------------------------------------------------------------------------
(* Authentication: app/auth/auth.py, the login and current-user endpoints, *)
(* and the browser side (ApiClient, the auth context, the login page).     *)
(* A JWT is the record of what was signed and how; a bcrypt hash is the    *)
(* pair of the scheme and the password it was made from.                   *)

MaxInflight == 2      \* at most this many requests are in flight
ExpireTicks == 0      \* ACCESS_TOKEN_EXPIRE_MINUTES, in ticks of the clock

SECRET_KEY == "secret-key"
ALGORITHM == "HS256"

Payload(sub, exp) == [sub |-> sub, exp |-> exp]

NoToken ==
    [payload |-> Payload(NULL, NULL), key |-> "", alg |-> "", wellformed |-> FALSE]

\* password_context.hash(password)
hash_password(password) == <<"bcrypt", password>>

\* verify_password that accepts every password
verify_password_AnyPassword(plain_password, hashed_password) == TRUE

\* password_context.verify(plain_password, hashed_password)
verify_password(plain_password, hashed_password) ==
    hashed_password = <<"bcrypt", plain_password>>

\* jwt.encode(to_encode, key, algorithm=algorithm)
jwt_encode(payload, key, alg) ==
    [payload |-> payload, key |-> key, alg |-> alg, wellformed |-> TRUE]

\* create_access_token(data) with no expires_delta
create_access_token(sub, t) ==
    jwt_encode(Payload(sub, t + ExpireTicks), SECRET_KEY, ALGORITHM)

\* jwt.decode(token, key, algorithms=algorithms) of python-jose: every
\* failure is a JWTError (ExpiredSignatureError is a subclass)
jwt_decode(token, key, algorithms, t) ==
    IF ~token.wellformed
    THEN [raised |-> TRUE, error |-> "JWTError", payload |-> NoToken.payload]
    ELSE IF token.alg \notin algorithms \/ token.key # key
    THEN [raised |-> TRUE, error |-> "JWTError", payload |-> NoToken.payload]
    ELSE IF token.payload.exp < t
    THEN [raised |-> TRUE, error |-> "ExpiredSignatureError",
          payload |-> NoToken.payload]
    ELSE [raised |-> FALSE, error |-> "", payload |-> token.payload]

\* the exception classes that are attributes of module jose.jwt
\* (python-jose 3.3.0, the version requirements.txt pins)
JoseJwtExceptions == {"JWTError", "ExpiredSignatureError", "JWTClaimsError",
                      "JWSError"}

\* verify_token(token): `raised` tells whether the call raises, `none`
\* whether it returns None, `payload` is what it returns otherwise.
\* Python evaluates the expression of the except clause, jwt.PyJWTError,
\* only when the try block has raised.
verify_token(token, t) ==
    LET decoded == jwt_decode(token, SECRET_KEY, {ALGORITHM}, t)
    IN IF ~decoded.raised
       THEN [raised |-> FALSE, error |-> "", none |-> FALSE,
             payload |-> decoded.payload]
       ELSE IF "PyJWTError" \in JoseJwtExceptions
       THEN [raised |-> FALSE, error |-> "", none |-> TRUE,
             payload |-> NoToken.payload]
       ELSE [raised |-> TRUE, error |-> "AttributeError", none |-> FALSE,
             payload |-> NoToken.payload]

\* a backend caller verifies a token it was handed
VerifyToken(token) ==
    /\ resp' = Resp("verify_token", 0, "", NULL, token, verify_token(token, now))
    /\ UNCHANGED <<clients, users, projects, now, fsVars, webVars, pageVars, aiVars, formVars, appVars, hookVars, atLogout>>

UsersByEmail(us, email) == {id \in DOMAIN us : us[id].email = email}

ServerReply(status, detail, id, token) ==
    [status |-> status, detail |-> detail, id |-> id, token |-> token]

\* POST /api/v1/users/login
login_user(us, email, password, t) ==
    LET ids == UsersByEmail(us, email)
    IN IF ids = {}
       THEN ServerReply(401, "Incorrect email or password", NULL, NoToken)
       ELSE LET id == CHOOSE i \in ids : TRUE
            IN IF ~verify_password(password, us[id].hashed_password)
               THEN ServerReply(401, "Incorrect email or password", NULL, NoToken)
               ELSE ServerReply(200, "", id, create_access_token(id, t))

\* GET /api/v1/users/me behind get_current_user
get_current_user(us, auth, t) ==
    IF auth = NoToken
    THEN ServerReply(401, "Not authenticated", NULL, NoToken)
    ELSE LET decoded == jwt_decode(auth, SECRET_KEY, {ALGORITHM}, t)
         IN IF decoded.raised \/ decoded.payload.sub \notin DOMAIN us
            THEN ServerReply(401, "Could not validate credentials", NULL, NoToken)
            ELSE ServerReply(200, "", decoded.payload.sub, NoToken)

\* the routes of the API: everything is mounted under /api/v1
Route(r, us, t) ==
    IF r.method = "POST" /\ r.path = "/api/v1/users/login"
    THEN login_user(us, r.email, r.password, t)
    ELSE IF r.method = "GET" /\ r.path = "/api/v1/users/me"
    THEN get_current_user(us, r.auth, t)
    ELSE ServerReply(404, "Not Found", NULL, NoToken)

\* an HTTP request as the server receives it; `auth` is the token of the
\* Authorization header (NoToken: no header), `op` the client call it serves
Request(op, method, path, auth, email, password) ==
    [op |-> op, method |-> method, path |-> path, auth |-> auth,
     email |-> email, password |-> password]

\* a request of the ApiClient: the request interceptor adds
\* 'Authorization: Bearer <token>' when this.token is set
ApiRequest(op, method, path, email, password) ==
    Request(op, method, path, apiToken, email, password)

\* ApiClient.login: POST '/api/v1/users/login'
ApiClient_login(email, password) ==
    ApiRequest("login", "POST", "/api/v1/users/login", email, password)

\* ApiClient.getCurrentUser: GET '/users/me'
ApiClient_getCurrentUser(op) == ApiRequest(op, "GET", "/users/me", "", "")

LoginFailedMessage == "Failed to login. Please check your credentials."

\* the browser with no session and nothing in flight
WebIdle ==
    /\ apiToken = NoToken
    /\ localStorage = NoToken
    /\ location = ""
    /\ user = NULL
    /\ isLoading = FALSE
    /\ pageError = ""
    /\ thrown = ""
    /\ inflight = {}
    /\ atLogout = {}

CanSend(r) == r \notin inflight /\ Cardinality(inflight) < MaxInflight

\* LoginPage.handleSubmit with a login that does not call setIsLoading(true)
handleSubmit_NoLoading(email, password) ==
    /\ ~isLoading
    /\ CanSend(ApiClient_login(email, password))
    /\ pageError' = ""
    /\ inflight' = inflight \cup {ApiClient_login(email, password)}
    /\ UNCHANGED <<apiToken, localStorage, location, user, thrown, isLoading>>
    /\ UNCHANGED <<clients, users, projects, now, resp, fsVars, pageVars, aiVars, formVars, appVars, hookVars, atLogout>>

\* LoginPage.handleSubmit up to the await inside ApiClient.login; the
\* submit button is disabled while isLoading
handleSubmit(email, password) ==
    /\ ~isLoading
    /\ CanSend(ApiClient_login(email, password))
    /\ pageError' = ""
    /\ isLoading' = TRUE
    /\ inflight' = inflight \cup {ApiClient_login(email, password)}
    /\ UNCHANGED <<apiToken, localStorage, location, user, thrown>>
    /\ UNCHANGED <<clients, users, projects, now, resp, fsVars, pageVars, aiVars, formVars, appVars, hookVars, atLogout>>

\* the login form as mounted: both fields empty, nothing logged
FormIdle ==
    /\ formEmail = ""
    /\ formPassword = ""
    /\ consoleLog = {}

\* the onChange handlers of the two fields of the login form
setEmail(value) ==
    /\ formEmail' = value
    /\ UNCHANGED <<formPassword, consoleLog>>
    /\ UNCHANGED <<clients, users, projects, now, resp, fsVars, webVars, pageVars, aiVars, appVars, hookVars, atLogout>>

setPassword(value) ==
    /\ formPassword' = value
    /\ UNCHANGED <<formEmail, consoleLog>>
    /\ UNCHANGED <<clients, users, projects, now, resp, fsVars, webVars, pageVars, aiVars, appVars, hookVars, atLogout>>

\* the form's onSubmit with the fields as they are; both fields are required
LoginPage_onSubmit ==
    /\ formEmail # ""
    /\ formPassword # ""
    /\ handleSubmit(formEmail, formPassword)

\* AuthProvider.refreshUser up to the await
refreshUser ==
    /\ CanSend(ApiClient_getCurrentUser("refreshUser"))
    /\ inflight' = inflight \cup {ApiClient_getCurrentUser("refreshUser")}
    /\ UNCHANGED <<apiToken, localStorage, location, user, isLoading,
                   pageError, thrown>>
    /\ UNCHANGED <<clients, users, projects, now, resp, fsVars, pageVars, aiVars, formVars, appVars, hookVars, atLogout>>

\* the calls whose responses the auth context awaits
AuthContextOps == {"login", "initializeAuth", "refreshUser"}

\* AuthProvider.logout of the auth context
logout ==
    /\ apiToken' = NoToken
    /\ localStorage' = NoToken
    /\ user' = NULL
    /\ location' = "/login"
    /\ atLogout' = {r \in inflight : r.op \in AuthContextOps}
    /\ UNCHANGED <<isLoading, pageError, thrown, inflight>>
    /\ UNCHANGED <<clients, users, projects, now, resp, fsVars, pageVars, aiVars, formVars, appVars, hookVars>>

\* login of lib/api/auth.ts up to the await: POST `${API_URL}/auth/login`
authLogin(email, password) ==
    /\ CanSend(Request("authLogin", "POST", "/auth/login", NoToken, email, password))
    /\ inflight' = inflight \cup
           {Request("authLogin", "POST", "/auth/login", NoToken, email, password)}
    /\ UNCHANGED <<apiToken, localStorage, location, user, isLoading,
                   pageError, thrown>>
    /\ UNCHANGED <<clients, users, projects, now, resp, fsVars, pageVars, aiVars, formVars, appVars, hookVars, atLogout>>

\* the response interceptor with the 401 branch taken for 403 instead
ResponseInterceptor_On403(r, out) ==
    IF r.op # "authLogin" /\ out.status = 403
    THEN [token |-> NoToken, storage |-> NoToken, location |-> "/login"]
    ELSE [token |-> apiToken, storage |-> localStorage, location |-> location]

\* the response interceptor with a clearToken that leaves local storage alone
ResponseInterceptor_KeepsStorage(r, out) ==
    IF r.op # "authLogin" /\ out.status = 401
    THEN [token |-> NoToken, storage |-> localStorage, location |-> "/login"]
    ELSE [token |-> apiToken, storage |-> localStorage, location |-> location]

\* the response interceptor of the ApiClient on an error response: on 401,
\* clearToken() and window.location.href = '/login'.  The requests of
\* lib/api/auth.ts do not pass through it.
ResponseInterceptor(r, out) ==
    IF r.op # "authLogin" /\ out.status = 401
    THEN [token |-> NoToken, storage |-> NoToken, location |-> "/login"]
    ELSE [token |-> apiToken, storage |-> localStorage, location |-> location]

\* The server answers request r and the code awaiting it runs to its end:
\* the response interceptor of the ApiClient, then the caller.
Settle(r) ==
    /\ r \in inflight
    /\ inflight' = inflight \ {r}
    /\ LET out == Route(r, users, now)
           ok == out.status \in 200..299
           seen == ResponseInterceptor(r, out)
       IN /\ resp' = Resp(r.op, out.status, out.detail, out.id, r, out.token)
          /\ CASE r.op = "login" ->
                    IF ok
                    THEN /\ apiToken' = out.token
                         /\ localStorage' = out.token
                         /\ user' = out.id
                         /\ location' = "/dashboard"
                         /\ isLoading' = FALSE
                         /\ thrown' = ""
                         /\ UNCHANGED pageError
                    ELSE /\ apiToken' = seen.token
                         /\ localStorage' = seen.storage
                         /\ location' = seen.location
                         /\ isLoading' = FALSE
                         /\ thrown' = out.detail
                         /\ pageError' = LoginFailedMessage
                         /\ UNCHANGED user
               [] r.op = "initializeAuth" ->
                    IF ok
                    THEN /\ user' = out.id
                         /\ isLoading' = FALSE
                         /\ thrown' = ""
                         /\ UNCHANGED <<apiToken, localStorage, location, pageError>>
                    ELSE /\ apiToken' = NoToken
                         /\ localStorage' = NoToken
                         /\ user' = NULL
                         /\ location' = seen.location
                         /\ isLoading' = FALSE
                         /\ thrown' = ""
                         /\ UNCHANGED pageError
               [] r.op = "refreshUser" ->
                    IF ok
                    THEN /\ user' = out.id
                         /\ thrown' = ""
                         /\ UNCHANGED <<apiToken, localStorage, location,
                                        isLoading, pageError>>
                    ELSE /\ apiToken' = NoToken
                         /\ localStorage' = NoToken
                         /\ user' = NULL
                         /\ location' = seen.location
                         /\ thrown' = out.detail
                         /\ UNCHANGED <<isLoading, pageError>>
               [] r.op = "authLogin" ->
                    /\ thrown' = IF ok THEN "" ELSE "Login failed"
                    /\ UNCHANGED <<apiToken, localStorage, location, user,
                                   isLoading, pageError>>
    /\ UNCHANGED <<clients, users, projects, now, fsVars, pageVars, aiVars, formVars, appVars, hookVars>>
    /\ atLogout' = atLogout \ {r}

\* ApiClient.isAuthenticated(): !!this.token
ApiClient_isAuthenticated == apiToken # NoToken

\* The page is loaded anew: the ApiClient constructor reads the token from
\* local storage, the auth context and the login form are mounted afresh
\* (initializeAuth asks for the current user when a token is held), and the
\* responses to the requests of the page before are dropped.
ApiClient_constructor ==
    /\ apiToken' = IF localStorage # NoToken THEN localStorage ELSE NoToken
    /\ user' = NULL
    /\ pageError' = ""
    /\ thrown' = ""
    /\ isLoading' = (localStorage # NoToken)
    /\ inflight' = IF localStorage # NoToken
                   THEN {Request("initializeAuth", "GET", "/users/me", localStorage, "", "")}
                   ELSE {}
    /\ atLogout' = {}
    /\ formEmail' = ""
    /\ formPassword' = ""
    /\ UNCHANGED <<localStorage, location, consoleLog>>
    /\ UNCHANGED <<clients, users, projects, now, resp, fsVars, pageVars, aiVars, appVars, hookVars>>

----------------------------------------------------------------------------
(* The second auth context, providers/AuthProvider.tsx, and the root page. *)

MaxPushes == 2        \* the router.push calls remembered per component

\* q with x appended, cut to its MaxPushes newest entries
Pushed(q, x) ==
    LET all == Append(q, x)
    IN IF Len(all) > MaxPushes THEN SubSeq(all, 2, Len(all)) ELSE all

\* the providers RootLayout mounts around every page
RootLayoutProviders == {"contexts/auth-context"}

\* the default value of the AuthContext of providers/AuthProvider.tsx
AuthContextDefault == [isLoading |-> TRUE, isAuthenticated |-> FALSE]

\* useAuth() of providers/AuthProvider.tsx in a page under RootLayout: the
\* provider's value when one is mounted above, otherwise the default value
providers_useAuth ==
    IF "providers/AuthProvider" \in RootLayoutProviders
    THEN [isLoading |-> pIsLoading, isAuthenticated |-> pUser # NULL]
    ELSE AuthContextDefault

\* no providers/AuthProvider in use, the root page's effect not yet run
AppIdle ==
    /\ pUser = NULL
    /\ pIsLoading = TRUE
    /\ pending = {}
    /\ rootSeen = <<>>
    /\ rootPushes = <<>>
    /\ guardSeen = <<>>
    /\ guardPushes = <<>>

\* the effect of RootPage: it runs after the first render and after every
\* render in which isAuthenticated or isLoading changed
RootPage_effect ==
    /\ rootSeen # <<providers_useAuth>>
    /\ rootSeen' = <<providers_useAuth>>
    /\ IF ~providers_useAuth.isLoading
       THEN LET target == IF providers_useAuth.isAuthenticated
                          THEN "/dashboard" ELSE "/login"
            IN /\ rootPushes' = Pushed(rootPushes, target)
               /\ location' = target
       ELSE UNCHANGED <<rootPushes, location>>
    /\ UNCHANGED <<pUser, pIsLoading, pending, guardSeen, guardPushes>>
    /\ UNCHANGED <<apiToken, localStorage, user, isLoading, pageError, thrown, inflight>>
    /\ UNCHANGED <<clients, users, projects, now, resp, fsVars, pageVars, aiVars, formVars, hookVars, atLogout>>

\* isAuthenticated of the auth context: !!user && apiClient.isAuthenticated()
isAuthenticated == user # NULL /\ apiToken # NoToken

\* what a page wrapped in withAuth renders, without the isLoading branch
WithAuth_render_NoSpinner ==
    IF ~isAuthenticated THEN "null" ELSE "page"

\* what a page wrapped in withAuth renders: the spinner, nothing, or the page
WithAuth_render ==
    IF isLoading THEN "spinner"
    ELSE IF ~isAuthenticated THEN "null"
    ELSE "page"

\* the values the effect of withAuth depends on
WithAuth_deps == [isAuthenticated |-> isAuthenticated, isLoading |-> isLoading]

\* the effect of withAuth: it runs after the first render and after every
\* render in which isAuthenticated or isLoading changed
WithAuth_effect ==
    /\ guardSeen # <<WithAuth_deps>>
    /\ guardSeen' = <<WithAuth_deps>>
    /\ IF ~isLoading /\ ~isAuthenticated
       THEN /\ guardPushes' = Pushed(guardPushes, "/login")
            /\ location' = "/login"
       ELSE UNCHANGED <<guardPushes, location>>
    /\ UNCHANGED <<pUser, pIsLoading, pending, rootSeen, rootPushes>>
    /\ UNCHANGED <<apiToken, localStorage, user, isLoading, pageError, thrown, inflight>>
    /\ UNCHANGED <<clients, users, projects, now, resp, fsVars, pageVars, aiVars, formVars, hookVars, atLogout>>

\* what a fetch of lib/api/auth.ts ends with: an ok response carrying the
\* user, a response that is not ok, or no response (status 0: fetch rejects)
FetchOutcomes ==
    {ServerReply(200, "", 1, NoToken),
     ServerReply(404, "Not Found", NULL, NoToken),
     ServerReply(0, "Failed to fetch", NULL, NoToken)}

\* a fetch of lib/api/auth.ts: no Authorization header, the session is a cookie
Fetch(op, method, path, email, password) ==
    Request(op, method, path, NoToken, email, password)

CanFetch(r) == r \notin pending /\ Cardinality(pending) < MaxInflight

\* getUser, logout and login of lib/api/auth.ts up to the await
getUser == Fetch("getUser", "GET", "/auth/me", "", "")

authLogout == Fetch("authLogout", "POST", "/auth/logout", "", "")

\* providers/AuthProvider is mounted: its effect has called loadUser
ProviderMounted ==
    /\ pUser = NULL
    /\ pIsLoading = TRUE
    /\ pending = {getUser}
    /\ rootSeen = <<>>
    /\ rootPushes = <<>>
    /\ guardSeen = <<>>
    /\ guardPushes = <<>>

\* AuthProvider.login of providers/AuthProvider.tsx up to the await
AuthProvider_login(email, password) ==
    /\ CanFetch(Fetch("authLogin", "POST", "/auth/login", email, password))
    /\ pending' = pending \cup {Fetch("authLogin", "POST", "/auth/login", email, password)}
    /\ UNCHANGED <<pUser, pIsLoading, rootSeen, rootPushes, guardSeen, guardPushes>>
    /\ UNCHANGED <<clients, users, projects, now, resp, fsVars, webVars, pageVars, aiVars, formVars, hookVars, atLogout>>

\* AuthProvider.logout of providers/AuthProvider.tsx up to the await
AuthProvider_logout ==
    /\ CanFetch(authLogout)
    /\ pending' = pending \cup {authLogout}
    /\ UNCHANGED <<pUser, pIsLoading, rootSeen, rootPushes, guardSeen, guardPushes>>
    /\ UNCHANGED <<clients, users, projects, now, resp, fsVars, webVars, pageVars, aiVars, formVars, hookVars, atLogout>>

\* the fetch r ends with `out` and the code awaiting it runs to its end:
\* the function of lib/api/auth.ts throws unless response.ok, then loadUser,
\* login or logout of the provider
AuthProvider_settle(r, out) ==
    /\ r \in pending
    /\ pending' = pending \ {r}
    /\ resp' = Resp(r.op, out.status, out.detail, out.id, r, out.token)
    /\ LET ok == out.status \in 200..299
       IN CASE r.op = "getUser" ->
                  /\ pUser' = IF ok THEN out.id ELSE NULL
                  /\ pIsLoading' = FALSE
                  /\ UNCHANGED <<location, thrown>>
            [] r.op = "authLogin" ->
                  IF ok
                  THEN /\ pUser' = out.id
                       /\ location' = "/dashboard"
                       /\ thrown' = ""
                       /\ UNCHANGED pIsLoading
                  ELSE /\ thrown' = IF out.status = 0 THEN out.detail ELSE "Login failed"
                       /\ UNCHANGED <<pUser, pIsLoading, location>>
            [] r.op = "authLogout" ->
                  IF ok
                  THEN /\ pUser' = NULL
                       /\ location' = "/login"
                       /\ thrown' = ""
                       /\ UNCHANGED pIsLoading
                  ELSE /\ thrown' = IF out.status = 0 THEN out.detail ELSE "Logout failed"
                       /\ UNCHANGED <<pUser, pIsLoading, location>>
    /\ UNCHANGED <<rootSeen, rootPushes, guardSeen, guardPushes>>
    /\ UNCHANGED <<apiToken, localStorage, user, isLoading, pageError, inflight>>
    /\ UNCHANGED <<clients, users, projects, now, fsVars, pageVars, aiVars, formVars, hookVars, atLogout>>

----------------------------------------------------------------------------
(* useAuth of the two auth modules, called by a component that is enclosed *)
(* by the providers of `mountedAbove`.                                     *)

AuthModules == {"contexts/auth-context", "providers/AuthProvider"}

\* the argument of createContext in each module; `defined` FALSE is undefined
ContextDefault(module) ==
    IF module = "contexts/auth-context"
    THEN [defined |-> FALSE, isLoading |-> FALSE, isAuthenticated |-> FALSE]
    ELSE [defined |-> TRUE, isLoading |-> AuthContextDefault.isLoading,
          isAuthenticated |-> AuthContextDefault.isAuthenticated]

\* the value the provider of a module passes down
ProviderValue(module) ==
    IF module = "contexts/auth-context"
    THEN [defined |-> TRUE, isLoading |-> isLoading, isAuthenticated |-> isAuthenticated]
    ELSE [defined |-> TRUE, isLoading |-> pIsLoading, isAuthenticated |-> pUser # NULL]

\* React's useContext: the value of the nearest provider, else the default
useContext(module, above) ==
    IF module \in above THEN ProviderValue(module) ELSE ContextDefault(module)

UseAuthError == "useAuth must be used within an AuthProvider"

HookOutcome(module, threw, error, value) ==
    [module |-> module, threw |-> threw, error |-> error, value |-> value]

\* useAuth of either module: throws when the context is undefined
useAuth(module, above) ==
    LET context == useContext(module, above)
    IN IF ~context.defined
       THEN HookOutcome(module, TRUE, UseAuthError, context)
       ELSE HookOutcome(module, FALSE, "", context)

NoHookResult == HookOutcome("", FALSE, "", ContextDefault("contexts/auth-context"))

\* no component has called useAuth; every page is under RootLayout
HookIdle ==
    /\ mountedAbove = RootLayoutProviders
    /\ hookResult = NoHookResult

\* a component renders and calls useAuth of `module`
Component_render(module) ==
    /\ hookResult' = useAuth(module, mountedAbove)
    /\ UNCHANGED mountedAbove
    /\ UNCHANGED <<clients, users, projects, now, resp, fsVars, webVars, pageVars, aiVars, formVars, appVars, atLogout>>

----------------------------------------------------------------------------
(* The clients page, app/clients/page.tsx.  The page lists the three mock  *)
(* clients of loadClients.  A name is the tuple of its lower-case words    *)
(* and a search term is one word; includes() is membership of the word.    *)

MaxLoads == 2         \* at most this many runs of loadClients are waiting

MockClient(company_name, contact_person_name) ==
    [company_name |-> company_name, contact_person_name |-> contact_person_name]

mockClients ==
    (1 :> MockClient(<<"acme", "corporation">>, <<"john", "smith">>))
    @@ (2 :> MockClient(<<"techstart", "inc.">>, <<"sarah", "johnson">>))
    @@ (3 :> MockClient(<<"global", "solutions", "ltd.">>, <<"michael", "brown">>))

includes(name, term) == \E i \in 1..Len(name) : name[i] = term

\* filteredClients of a run of loadClients that read `term`
filteredClients(term) ==
    IF term # ""
    THEN {id \in DOMAIN mockClients :
            \/ includes(mockClients[id].company_name, term)
            \/ includes(mockClients[id].contact_person_name, term)}
    ELSE DOMAIN mockClients

\* the page is not open
PageIdle ==
    /\ pageClients = {}
    /\ totalClients = 0
    /\ searchTerm = ""
    /\ pageLoading = FALSE
    /\ loads = <<>>
    /\ deleteAlerts = {}

\* handleSearchChange, and the effect on searchTerm that starts loadClients
\* (loadClients up to its await)
handleSearchChange(term) ==
    /\ term # searchTerm
    /\ Len(loads) < MaxLoads
    /\ searchTerm' = term
    /\ pageLoading' = TRUE
    /\ loads' = Append(loads, term)
    /\ UNCHANGED <<pageClients, totalClients, deleteAlerts>>
    /\ UNCHANGED <<clients, users, projects, now, resp, fsVars, webVars, aiVars, formVars, appVars, hookVars, atLogout>>

\* loadClients after its delay; the delays are equal, so the runs end in
\* the order they began
loadClients ==
    /\ loads # <<>>
    /\ pageClients' = filteredClients(Head(loads))
    /\ totalClients' = Cardinality(filteredClients(Head(loads)))
    /\ pageLoading' = FALSE
    /\ loads' = Tail(loads)
    /\ UNCHANGED <<searchTerm, deleteAlerts>>
    /\ UNCHANGED <<clients, users, projects, now, resp, fsVars, webVars, aiVars, formVars, appVars, hookVars, atLogout>>

\* handleDeleteClient, from the delete button of a listed client; the user
\* answers the confirm() dialog
handleDeleteClient(clientId, confirmed) ==
    /\ ~pageLoading
    /\ clientId \in pageClients
    /\ IF confirmed
       THEN /\ pageClients' = pageClients \ {clientId}
            /\ deleteAlerts' = deleteAlerts \cup {clientId}
       ELSE UNCHANGED <<pageClients, deleteAlerts>>
    /\ UNCHANGED <<totalClients, searchTerm, pageLoading, loads>>
    /\ UNCHANGED <<clients, users, projects, now, resp, fsVars, webVars, aiVars, formVars, appVars, hookVars, atLogout>>

----------------------------------------------------------------------------
(* The AI assistant form, components/ai-assistant/ai-assistant.tsx, and    *)
(* ApiClient.getAIAssistantResponse.  What the AI endpoint answers is the  *)
(* provider's business: any of AiOutcomes.                                 *)

MaxAi == 2            \* at most this many AI requests are waiting

\* what an AI request ends with: an HTTP response (`kind` "response") with
\* its status and body, or an error thrown without a response
AiOutcome(kind, status, output_text, error, message) ==
    [kind |-> kind, status |-> status, output_text |-> output_text,
     error |-> error, message |-> message]

AiOutcomes ==
    {AiOutcome("response", 200, "Test AI response", "", ""),
     AiOutcome("response", 401, "", "Not authenticated", ""),
     AiOutcome("response", 500, "", "Internal server error",
               "An unexpected error occurred. Please try again later."),
     AiOutcome("network", 0, "", "", "Network error")}

\* ApiClient.handleError: the body of the error response, or, when there is
\* none, {error: error.message || 'An unexpected error occurred',
\* status_code: 500}; "" is an absent `message`
handleError(out) ==
    IF out.kind = "response"
    THEN [error |-> out.error, message |-> out.message, status_code |-> out.status]
    ELSE [error |-> IF out.message # "" THEN out.message
                    ELSE "An unexpected error occurred",
          message |-> "", status_code |-> 500]

\* the form is not in use
AiIdle ==
    /\ aiLoading = FALSE
    /\ aiError = ""
    /\ aiResponse = ""
    /\ aiRequests = <<>>

\* AIAssistant.handleSubmit without the disabled submit button
AIAssistant_handleSubmit_NotDisabled(actionType, inputText) ==
    /\ actionType = "message_summary" => inputText # ""
    /\ Len(aiRequests) < MaxAi
    /\ aiLoading' = TRUE
    /\ aiError' = ""
    /\ aiResponse' = ""
    /\ aiRequests' = Append(aiRequests,
                            [action_type |-> actionType, input_text |-> inputText,
                             auth |-> apiToken])
    /\ UNCHANGED <<clients, users, projects, now, resp, fsVars, webVars, pageVars, formVars, appVars, hookVars, atLogout>>

\* AIAssistant.handleSubmit up to the await; the submit button is disabled
\* while loading and the text is required for a message summary
AIAssistant_handleSubmit(actionType, inputText) ==
    /\ ~aiLoading
    /\ actionType = "message_summary" => inputText # ""
    /\ Len(aiRequests) < MaxAi
    /\ aiLoading' = TRUE
    /\ aiError' = ""
    /\ aiResponse' = ""
    /\ aiRequests' = Append(aiRequests,
                            [action_type |-> actionType, input_text |-> inputText,
                             auth |-> apiToken])
    /\ UNCHANGED <<clients, users, projects, now, resp, fsVars, webVars, pageVars, formVars, appVars, hookVars, atLogout>>

\* the submit button: disabled={loading}, and its label
SubmitDisabled == aiLoading

SubmitLabel == IF aiLoading THEN "Processing..." ELSE "Submit"

\* what the form renders below the button: the error paragraph and the
\* response box, "" when not rendered
ErrorShown == IF aiError # "" THEN "Error: " \o aiError ELSE ""

ResponseShown == aiResponse

RemoveAt(q, i) == SubSeq(q, 1, i - 1) \o SubSeq(q, i + 1, Len(q))

\* the i-th waiting AI request ends with `out`: the response interceptor,
\* then AIAssistant.handleSubmit from its await on
AIAssistant_settle(i, out) ==
    /\ i \in 1..Len(aiRequests)
    /\ aiRequests' = RemoveAt(aiRequests, i)
    /\ LET seen == ResponseInterceptor([op |-> "getAIAssistantResponse"], out)
           err == handleError(out)
       IN /\ apiToken' = seen.token
          /\ localStorage' = seen.storage
          /\ location' = seen.location
          /\ IF out.kind = "response" /\ out.status \in 200..299
             THEN /\ aiResponse' = out.output_text
                  /\ UNCHANGED aiError
             ELSE /\ aiError' = IF err.message # "" THEN err.message
                                ELSE "Unknown error"
                  /\ UNCHANGED aiResponse
          /\ aiLoading' = FALSE
          /\ resp' = Resp("getAIAssistantResponse", out.status, out.error, NULL,
                          aiRequests[i], out)
    /\ UNCHANGED <<user, isLoading, pageError, thrown, inflight>>
    /\ UNCHANGED <<clients, users, projects, now, fsVars, pageVars, formVars, appVars, hookVars, atLogout>>

CreateInputs ==
    [client_id : ClientIdInputs, developer_id : DeveloperIdInputs,
     status : StatusInputs, end_date : EndDateInputs]

UpdateInputs ==
    [status : {UnsetStatus, "in_progress", "completed"}, end_date : {UNSET, NULL},
     developer_id : {UNSET, 2}]

EmptyTable == [id \in {} |-> Row(NULL, NULL, "planning", NULL, NULL)]

Init ==
    /\ clients \in {{}, {1}}
    /\ users = (1 :> UserRow("dev@example.com", <<"bcrypt", "pw1">>, "developer"))
    /\ projects = EmptyTable
    /\ now = 0
    /\ resp = NoResp
    /\ files = InitialFiles
    /\ dirs = {DbParent}
    /\ WebIdle
    /\ PageIdle
    /\ AiIdle
    /\ FormIdle
    /\ AppIdle
    /\ HookIdle

Next ==
    \/ \E data \in CreateInputs : create_project(data, MaxProjects)
    \/ \E skip \in 0..1, limit \in {2}, status \in {"", "completed"},
          is_overdue \in BOOLEAN :
          get_projects(skip, limit, status, is_overdue)
    \/ \E id \in 1..(MaxProjects + 1) : get_project(id)
    \/ \E id \in 1..(MaxProjects + 1), data \in UpdateInputs :
          update_project(id, data)
    \/ \E id \in 1..(MaxProjects + 1) : delete_project(id)
    \/ \E id \in 1..(MaxProjects + 1) : complete_project(id)
    \/ \E id \in ClientIdInputs : delete_client(id)
    \/ Tick

Spec == Init /\ [][Next]_vars

----------------------------------------------------------------------------
(* The listing specification: a table of up to MaxRows default rows, read  *)
(* page by page.                                                           *)

DefaultData ==
    [client_id |-> 1, developer_id |-> NULL, status |-> "in_progress",
     end_date |-> NULL]

MinOf(S) == CHOOSE x \in S : \A y \in S : x <= y

InitList ==
    /\ clients = {1}
    /\ users = (1 :> UserRow("dev@example.com", <<"bcrypt", "pw1">>, "developer"))
    /\ projects = EmptyTable
    /\ now = 0
    /\ resp = NoResp
    /\ files = InitialFiles
    /\ dirs = {DbParent}
    /\ WebIdle
    /\ PageIdle
    /\ AiIdle
    /\ FormIdle
    /\ AppIdle
    /\ HookIdle

SeedRow == create_project(DefaultData, MaxRows)

\* the oldest or the newest row is deleted
DropRow ==
    /\ DOMAIN projects # {}
    /\ \E id \in {MinOf(DOMAIN projects), MaxOf(DOMAIN projects)} :
          delete_project(id)

ListPage ==
    \E skip \in 0..MaxRows, limit \in 1..MaxLimit :
        get_projects(skip, limit, "", FALSE)

NextList == SeedRow \/ DropRow \/ ListPage

SpecList == InitList /\ [][NextList]_vars

----------------------------------------------------------------------------
(* The backup specification: the backup endpoint, called by users of every *)
(* role, while the database file is written and the clock runs.  The       *)
(* database file may be missing at the start.                              *)

InitBackup ==
    /\ clients = {1}
    /\ users = (1 :> UserRow("dev@example.com", <<"bcrypt", "pw1">>, "developer"))
    /\ projects = EmptyTable
    /\ now = 0
    /\ resp = NoResp
    /\ files \in {NoFiles, InitialFiles}
    /\ dirs = {DbParent}
    /\ WebIdle
    /\ PageIdle
    /\ AiIdle
    /\ FormIdle
    /\ AppIdle
    /\ HookIdle

NextBackup ==
    \/ \E role \in Roles : trigger_database_backup(role)
    \/ DbCommit
    \/ Tick

SpecBackup == InitBackup /\ [][NextBackup]_vars

----------------------------------------------------------------------------
(* The authentication specification: the browser signs in and out and asks *)
(* for the current user while its requests are answered in any order, the  *)
(* backend verifies tokens, and the clock runs.  The browser may start     *)
(* with a token kept from an earlier visit.                                *)

EmailInputs == {"admin@example.com", "nobody@example.com"}
PasswordInputs == {"pw1", "pw2"}

AuthUsers ==
    (1 :> UserRow("admin@example.com", hash_password("pw1"), "admin"))
    @@ (2 :> UserRow("dev@example.com", hash_password("pw2"), "developer"))

TokenInputs ==
    {jwt_encode(Payload(1, e), k, ALGORITHM) :
        e \in Times, k \in {SECRET_KEY, "other-key"}}
    \cup {jwt_encode(Payload(1, MaxTime), "", "none"),
          [NoToken EXCEPT !.alg = "garbage"]}

\* the ApiClient constructor and the mount effect of AuthProvider
\* (initializeAuth up to its await)
InitAuth ==
    /\ clients = {1}
    /\ users = AuthUsers
    /\ projects = EmptyTable
    /\ now = 0
    /\ resp = NoResp
    /\ files = InitialFiles
    /\ dirs = {DbParent}
    /\ localStorage \in {NoToken, create_access_token(1, 0)}
    /\ apiToken = localStorage
    /\ location = ""
    /\ user = NULL
    /\ pageError = ""
    /\ thrown = ""
    /\ isLoading = (apiToken # NoToken)
    /\ inflight = IF apiToken # NoToken
                  THEN {ApiClient_getCurrentUser("initializeAuth")}
                  ELSE {}
    /\ atLogout = {}
    /\ PageIdle
    /\ AiIdle
    /\ FormIdle
    /\ AppIdle
    /\ HookIdle

NextAuth ==
    \/ \E email \in EmailInputs : setEmail(email)
    \/ \E password \in PasswordInputs : setPassword(password)
    \/ LoginPage_onSubmit
    \/ \E email \in EmailInputs : authLogin(email, "pw2")
    \/ refreshUser
    \/ logout
    \/ \E r \in inflight : Settle(r)
    \/ \E token \in TokenInputs : VerifyToken(token)
    \/ Tick

SpecAuth == InitAuth /\ [][NextAuth]_vars

----------------------------------------------------------------------------
(* The clients-page specification: the page is mounted (its first load is  *)
(* waiting), the user searches and deletes clients.                        *)

SearchInputs == {"", "acme", "sarah"}

InitClients ==
    /\ clients = {1}
    /\ users = AuthUsers
    /\ projects = EmptyTable
    /\ now = 0
    /\ resp = NoResp
    /\ files = InitialFiles
    /\ dirs = {DbParent}
    /\ WebIdle
    /\ pageClients = {}
    /\ totalClients = 0
    /\ searchTerm = ""
    /\ pageLoading = TRUE
    /\ loads = <<"">>
    /\ deleteAlerts = {}
    /\ AiIdle
    /\ FormIdle
    /\ AppIdle
    /\ HookIdle

NextClients ==
    \/ \E term \in SearchInputs : handleSearchChange(term)
    \/ loadClients
    \/ \E clientId \in DOMAIN mockClients, confirmed \in BOOLEAN :
          handleDeleteClient(clientId, confirmed)

SpecClients == InitClients /\ [][NextClients]_vars

----------------------------------------------------------------------------
(* The AI-assistant specification: a signed-in or signed-out user submits  *)
(* the form, the requests end in any of the outcomes, the clock runs.      *)

ActionTypeInputs == {"message_summary", "follow_up_reminder"}
InputTextInputs == {"", "Test input"}

InitAi ==
    /\ clients = {1}
    /\ users = AuthUsers
    /\ projects = EmptyTable
    /\ now = 0
    /\ resp = NoResp
    /\ files = InitialFiles
    /\ dirs = {DbParent}
    /\ localStorage \in {NoToken, create_access_token(1, 0)}
    /\ apiToken = localStorage
    /\ location = ""
    /\ user = NULL
    /\ isLoading = FALSE
    /\ pageError = ""
    /\ thrown = ""
    /\ inflight = {}
    /\ atLogout = {}
    /\ PageIdle
    /\ AiIdle
    /\ FormIdle
    /\ AppIdle
    /\ HookIdle

NextAi ==
    \/ \E actionType \in ActionTypeInputs, inputText \in InputTextInputs :
          AIAssistant_handleSubmit(actionType, inputText)
    \/ \E i \in 1..MaxAi, out \in AiOutcomes : AIAssistant_settle(i, out)
    \/ Tick

SpecAi == InitAi /\ [][NextAi]_vars

----------------------------------------------------------------------------
(* The root-page specification: the application is opened at '/', under    *)
(* RootLayout.  Effects run after the render that schedules them and every *)
(* request of the ApiClient is answered or times out, hence the fairness.  *)

InitRoot == InitAuth

NextRoot ==
    \/ RootPage_effect
    \/ \E r \in inflight : Settle(r)
    \/ refreshUser
    \/ logout
    \/ \E token \in TokenInputs : VerifyToken(token)
    \/ Tick

SpecRoot ==
    /\ InitRoot
    /\ [][NextRoot]_vars
    /\ WF_vars(RootPage_effect)
    /\ WF_vars(\E r \in inflight : Settle(r))

----------------------------------------------------------------------------
(* The protected-page specification: a page wrapped in withAuth is open    *)
(* under the auth context while the user logs in and out.                  *)

InitGuard == InitAuth

\* React runs a pending effect before it handles the next event
GuardEffectsFlushed == guardSeen = <<WithAuth_deps>>

NextGuard ==
    \/ WithAuth_effect
    \/ GuardEffectsFlushed /\ \E email \in EmailInputs : setEmail(email)
    \/ GuardEffectsFlushed /\ \E password \in PasswordInputs : setPassword(password)
    \/ GuardEffectsFlushed /\ LoginPage_onSubmit
    \/ GuardEffectsFlushed /\ refreshUser
    \/ GuardEffectsFlushed /\ logout
    \/ GuardEffectsFlushed /\ \E r \in inflight : Settle(r)
    \/ GuardEffectsFlushed /\ Tick

SpecGuard == InitGuard /\ [][NextGuard]_vars

----------------------------------------------------------------------------
(* The session specification: both auth contexts are in use, the user logs *)
(* in and out through either.                                              *)

InitSession ==
    /\ clients = {1}
    /\ users = AuthUsers
    /\ projects = EmptyTable
    /\ now = 0
    /\ resp = NoResp
    /\ files = InitialFiles
    /\ dirs = {DbParent}
    /\ localStorage \in {NoToken, create_access_token(1, 0)}
    /\ apiToken = localStorage
    /\ location = ""
    /\ user = NULL
    /\ pageError = ""
    /\ thrown = ""
    /\ isLoading = (apiToken # NoToken)
    /\ inflight = IF apiToken # NoToken
                  THEN {ApiClient_getCurrentUser("initializeAuth")}
                  ELSE {}
    /\ atLogout = {}
    /\ PageIdle
    /\ AiIdle
    /\ FormIdle
    /\ ProviderMounted
    /\ HookIdle

NextSession ==
    \/ \E email \in EmailInputs : setEmail(email)
    \/ \E password \in PasswordInputs : setPassword(password)
    \/ LoginPage_onSubmit
    \/ logout
    \/ \E r \in inflight : Settle(r)
    \/ \E email \in EmailInputs : AuthProvider_login(email, "pw1")
    \/ AuthProvider_logout
    \/ \E r \in pending, out \in FetchOutcomes : AuthProvider_settle(r, out)

SpecSession == InitSession /\ [][NextSession]_vars

----------------------------------------------------------------------------
(* The hook specification: a component is rendered with any set of the two *)
(* providers around it and calls useAuth while the session changes.        *)

InitHook ==
    /\ clients = {1}
    /\ users = AuthUsers
    /\ projects = EmptyTable
    /\ now = 0
    /\ resp = NoResp
    /\ files = InitialFiles
    /\ dirs = {DbParent}
    /\ localStorage \in {NoToken, create_access_token(1, 0)}
    /\ apiToken = localStorage
    /\ location = ""
    /\ user = NULL
    /\ pageError = ""
    /\ thrown = ""
    /\ isLoading = (apiToken # NoToken)
    /\ inflight = IF apiToken # NoToken
                  THEN {ApiClient_getCurrentUser("initializeAuth")}
                  ELSE {}
    /\ atLogout = {}
    /\ PageIdle
    /\ AiIdle
    /\ FormIdle
    /\ ProviderMounted
    /\ mountedAbove \in SUBSET AuthModules
    /\ hookResult = NoHookResult

NextHook ==
    \/ \E module \in AuthModules : Component_render(module)
    \/ \E email \in EmailInputs : setEmail(email)
    \/ \E password \in PasswordInputs : setPassword(password)
    \/ LoginPage_onSubmit
    \/ logout
    \/ \E r \in inflight : Settle(r)
    \/ \E r \in pending, out \in FetchOutcomes : AuthProvider_settle(r, out)

SpecHook == InitHook /\ [][NextHook]_vars

----------------------------------------------------------------------------
(* The token specification: one browser tab, in which the page is loaded   *)
(* and reloaded and the user logs in and out.                              *)

InitToken == InitAuth

NextToken ==
    \/ ApiClient_constructor
    \/ \E email \in EmailInputs : setEmail(email)
    \/ \E password \in PasswordInputs : setPassword(password)
    \/ LoginPage_onSubmit
    \/ refreshUser
    \/ logout
    \/ \E r \in inflight : Settle(r)
    \/ Tick

SpecToken == InitToken /\ [][NextToken]_vars

----------------------------------------------------------------------------
(* Claims *)

\* C1: creating a Project whose client_id names no existing Client fails
\* with 404 "Client not found" and leaves the projects table as it was.
C1_CreateWithMissingClient ==
    [][(resp'.op = "create_project" /\ resp'.req \notin clients)
        => (/\ resp'.status = 404
            /\ resp'.detail = "Client not found"
            /\ projects' = projects)]_vars

C1_Witness ==
    /\ resp.op = "create_project"
    /\ resp.req \notin clients
    /\ resp.status = 404
    /\ DOMAIN projects # {}

\* the ids of the projects a get_projects body lists
ListedIds(body) == {body.projects[i].id : i \in 1..Len(body.projects)}

\* the claim's condition for is_overdue, on the fields of a response item
OverdueByClaim(item, t) ==
    /\ item.end_date # NULL
    /\ item.end_date < t
    /\ item.status \notin {"completed", "cancelled"}

\* C5: every project a response reports carries is_overdue = TRUE exactly
\* when its end_date is set and earlier than the time of the call and its
\* status is neither completed nor cancelled; and the listing filtered by
\* is_overdue holds exactly the projects that report is_overdue = TRUE.
C5_IsOverdue ==
    /\ resp.op \in {"get_project", "create_project", "update_project",
                    "complete_project"} /\ resp.status \in {200, 201}
         => (resp.body.is_overdue <=> OverdueByClaim(resp.body, resp.at))
    /\ resp.op = "get_projects"
         => /\ \A i \in 1..Len(resp.body.projects) :
                  LET item == resp.body.projects[i]
                  IN /\ item.is_overdue <=> OverdueByClaim(item, resp.at)
                     /\ resp.req.is_overdue => item.is_overdue
            /\ resp.req.is_overdue /\ resp.req.status = ""
                 => resp.body.total =
                      Cardinality({id \in DOMAIN projects :
                          Enhanced(id, projects[id], resp.at).is_overdue})

C5_Witness ==
    /\ resp.op = "get_projects"
    /\ resp.req.is_overdue
    /\ \E i \in 1..Len(resp.body.projects) :
          /\ resp.body.projects[i].is_overdue
          /\ resp.body.projects[i].status = "in_progress"
          /\ resp.body.projects[i].end_date < resp.at

\* C10: with no write in between, the page (skip=a, limit=n) followed by the
\* page (skip=a+n, limit=m) are disjoint and together are the page
\* (skip=a, limit=n+m), in its order; on 15 rows (0,10) holds 10 records and
\* (10,10) the other 5.
C10_Pages ==
    resp.op = "get_projects" =>
        LET a == resp.req.skip
            n == resp.req.limit
            first == resp.body
        IN /\ \A m \in 1..MaxLimit :
                LET second == ListBody(projects, a + n, m, "", FALSE, now)
                    both == ListBody(projects, a, n + m, "", FALSE, now)
                IN /\ first.projects \o second.projects = both.projects
                   /\ ListedIds(first) \cap ListedIds(second) = {}
           /\ (Cardinality(DOMAIN projects) = 15 /\ a = 0 /\ n = 10)
                => LET rest == ListBody(projects, 10, 10, "", FALSE, now)
                   IN /\ Len(first.projects) = 10
                      /\ Len(rest.projects) = 5
                      /\ ListedIds(first) \cup ListedIds(rest) = DOMAIN projects

C10_Witness ==
    /\ resp.op = "get_projects"
    /\ Cardinality(DOMAIN projects) = 15
    /\ resp.req.skip = 0 /\ resp.req.limit = 10
    /\ Len(resp.body.projects) = 10
    /\ Len(ListBody(projects, 10, 10, "", FALSE, now).projects) = 5

\* C6: when the database file does not exist, the backup fails with an error
\* naming the missing file and changes nothing in the file system: no file
\* is written and no directory is created.
C6_BackupWithoutDatabaseFile ==
    [][(/\ resp' # resp
        /\ resp'.op = "trigger_database_backup"
        /\ resp'.req = "admin"
        /\ DbPath \notin DOMAIN files)
        => (/\ resp'.status = 500
            /\ resp'.detail = "Failed to create database backup: "
                              \o "Database file not found at ./smart_crm.db"
            /\ files' = files
            /\ dirs' = dirs)]_vars

C6_Witness ==
    /\ resp.op = "trigger_database_backup"
    /\ resp.req = "admin"
    /\ resp.status = 500
    /\ DbPath \notin DOMAIN files
    /\ BackupDir \notin dirs

\* C7: when the database file exists, the backup makes the directory
\* "backups" next to it if it is not there, writes there a file named
\* <stem>_backup_<YYYYMMDD_HHMMSS><suffix> holding the bytes the database
\* file has at the call, leaves the database file as it is and returns the
\* path of the new file.
C7_BackupCopiesDatabaseFile ==
    [][(/\ resp' # resp
        /\ resp'.op = "trigger_database_backup"
        /\ resp'.req = "admin"
        /\ DbPath \in DOMAIN files)
        => LET path == "./backups/smart_crm_backup_20250712_1200"
                       \o TwoDigits(now) \o ".db"
           IN /\ resp'.status = 200
              /\ resp'.body = path
              /\ path \in DOMAIN files'
              /\ files'[path] = files[DbPath]
              /\ files'[DbPath] = files[DbPath]
              /\ \A p \in DOMAIN files \ {path} : files'[p] = files[p]
              /\ DOMAIN files' = DOMAIN files \cup {path}
              /\ dirs' = dirs \cup {"./backups"}]_vars

C7_Witness ==
    /\ resp.op = "trigger_database_backup"
    /\ resp.status = 200
    /\ resp.body \in DOMAIN files
    /\ files[DbPath] > files[resp.body]
    /\ now > resp.at

\* C8: the backup runs only for a caller whose role is admin; for a caller
\* of any other role the request is refused with 403 and the file system is
\* left as it was.
C8_BackupAdminOnly ==
    [][(/\ resp' # resp
        /\ resp'.op = "trigger_database_backup"
        /\ resp'.req # "admin")
        => (/\ resp'.status = 403
            /\ files' = files
            /\ dirs' = dirs)]_vars

C8_Witness ==
    /\ resp.op = "trigger_database_backup"
    /\ resp.req = "manager"
    /\ resp.status = 403
    /\ DbPath \in DOMAIN files
    /\ BackupDir \notin dirs

\* the stored user rows whose email is `email`
KnownEmail(email) == \E id \in DOMAIN users : users[id].email = email

\* the password is the one a user with this email registered
RightPassword(email, password) ==
    \E id \in DOMAIN users :
        users[id].email = email /\ users[id].hashed_password = <<"bcrypt", password>>

\* C2: a failed login has the same outcome whether the email is unknown or
\* the email exists and the password is wrong: the same 401 response with
\* the same detail and no token, the same error thrown to the caller and
\* the same message on the login page; lib/api/auth.ts throws 'Login
\* failed' in both cases.
C2_FailedLoginIndistinguishable ==
    [][\A r \in inflight :
         (/\ inflight' = inflight \ {r}
          /\ \/ ~KnownEmail(r.email)
             \/ KnownEmail(r.email) /\ ~RightPassword(r.email, r.password))
         => /\ r.op = "login"
               => /\ resp'.status = 401
                  /\ resp'.detail = "Incorrect email or password"
                  /\ resp'.id = NULL
                  /\ resp'.body = NoToken
                  /\ thrown' = "Incorrect email or password"
                  /\ pageError' = "Failed to login. Please check your credentials."
                  /\ user' = user
                  /\ apiToken' = NoToken
            /\ r.op = "authLogin" => thrown' = "Login failed"]_vars

C2_Witness ==
    /\ resp.op = "login"
    /\ resp.req.email = "admin@example.com"
    /\ resp.req.password = "pw2"
    /\ resp.status = 401
    /\ pageError = "Failed to login. Please check your credentials."
    /\ user = NULL

\* C3: while the ApiClient holds the token T of a successful login of user
\* U, every request it issues carries 'Authorization: Bearer T', and the
\* current-user request made with the unexpired T is answered 200 with U.
C3_BearerTokenAndCurrentUser ==
    [][/\ \A r \in inflight' \ inflight :
            (r.op # "authLogin" /\ apiToken # NoToken) => r.auth = apiToken
       /\ \A r \in inflight :
            (/\ inflight' = inflight \ {r}
             /\ r.op = "refreshUser"
             /\ user # NULL
             /\ apiToken # NoToken
             /\ r.auth = apiToken
             /\ apiToken.payload.exp >= now)
            => (resp'.status = 200 /\ resp'.id = user)]_vars

\* C4: verify_token never raises; it returns the payload of a token signed
\* with SECRET_KEY and ALGORITHM whose exp has not passed, and None for
\* every other token.
C4_VerifyTokenFailsClosed ==
    resp.op = "verify_token"
    => LET token == resp.req
           valid == /\ token.wellformed
                    /\ token.key = SECRET_KEY
                    /\ token.alg = ALGORITHM
                    /\ token.payload.exp >= resp.at
       IN /\ ~resp.body.raised
          /\ valid => (~resp.body.none /\ resp.body.payload = token.payload)
          /\ ~valid => resp.body.none

\* C9: once the delete of id x has succeeded, no later listing contains x:
\* on the clients page, a client whose deletion was reported as successful
\* is in no list the page shows afterwards.
C9_DeletedStaysGone ==
    ~pageLoading => \A x \in deleteAlerts : x \notin pageClients

C12_OneRowPerCall ==
    [][(resp' # resp /\ resp'.status \in {200, 201, 204})
        => LET id == resp'.id
               others == DOMAIN projects \ {id}
           IN /\ resp'.op = "create_project"
                 => /\ id \notin DOMAIN projects
                    /\ DOMAIN projects' = DOMAIN projects \cup {id}
                    /\ \A o \in others : projects'[o] = projects[o]
                    /\ clients' = clients
              /\ resp'.op \in {"update_project", "complete_project"}
                 => /\ DOMAIN projects' = DOMAIN projects
                    /\ \A o \in others : projects'[o] = projects[o]
                    /\ clients' = clients
              /\ resp'.op = "delete_project"
                 => /\ id \in DOMAIN projects
                    /\ DOMAIN projects' = others
                    /\ \A o \in others : projects'[o] = projects[o]
                    /\ clients' = clients
              /\ resp'.op = "delete_client"
                 => /\ clients' = clients \ {id}
                    /\ projects' = projects]_vars

\* C13: whenever a response to a request of the ApiClient has status 401,
\* the token is cleared in memory and in local storage, the browser is sent
\* to /login and the call is rejected (what the call would have done on
\* success does not happen); every request issued carries the token the
\* client holds at that moment, so none issued later carries a cleared one.
C13_UnauthorizedClearsSession ==
    [][/\ \A r \in inflight :
            (/\ inflight' = inflight \ {r}
             /\ r.op # "authLogin"
             /\ resp'.status = 401)
            => /\ apiToken' = NoToken
               /\ localStorage' = NoToken
               /\ location' = "/login"
               /\ r.op \in {"login", "refreshUser"} => thrown' = resp'.detail
               /\ r.op = "login" => user' = user
               /\ r.op \in {"initializeAuth", "refreshUser"} => user' = NULL
       /\ \A r \in inflight' \ inflight :
            r.op # "authLogin" => r.auth = apiToken]_vars

C13_Witness ==
    /\ resp.op = "login"
    /\ resp.status = 401
    /\ resp.req.auth # NoToken
    /\ apiToken = NoToken
    /\ localStorage = NoToken
    /\ location = "/login"
    /\ thrown = "Incorrect email or password"


\* C14: while an AI request is waiting the submit button is disabled and
\* labelled 'Processing...', at most one AI request is waiting, a submit adds
\* exactly one request, and when a request succeeds its output_text is
\* displayed and the button is enabled again.
C14_OneAiRequestAtATime ==
    /\ [](/\ Len(aiRequests) <= 1
          /\ aiRequests # <<>> => SubmitDisabled /\ SubmitLabel = "Processing...")
    /\ [][/\ (aiLoading' /\ ~aiLoading) => Len(aiRequests') = Len(aiRequests) + 1
          /\ Len(aiRequests') > Len(aiRequests) =>
                 /\ ~aiLoading
                 /\ Len(aiRequests') = Len(aiRequests) + 1
          /\ (Len(aiRequests') < Len(aiRequests) /\ resp'.status = 200) =>
                 /\ ResponseShown' = resp'.body.output_text
                 /\ resp'.body.output_text # ""
                 /\ ~SubmitDisabled'
                 /\ SubmitLabel' = "Submit"]_vars

\* a request has succeeded: its text is displayed and the button is enabled
C14_Witness ==
    /\ resp.op = "getAIAssistantResponse"
    /\ resp.status = 200
    /\ ResponseShown = "Test AI response"
    /\ ~SubmitDisabled
    /\ aiRequests = <<>>

\* C15: when an AI request fails, the form displays 'Error: ' followed by the
\* failure's message (a network failure with message 'Network error' gives
\* 'Error: Network error'), displays no AI response, and is not loading.
C15_FailureMessageShown ==
    [][(Len(aiRequests') < Len(aiRequests) /\ resp'.status # 200) =>
           /\ ErrorShown' # ""
           /\ resp'.body.message # "" =>
                  ErrorShown' = "Error: " \o resp'.body.message
           /\ ResponseShown' = ""
           /\ ~aiLoading']_vars

\* the login requests a step adds
NewLogins == {r \in inflight' \ inflight : r.op = "login"}

\* C16: submitting the login form calls the submit handler once with the
\* email and password entered in the two fields, which shows as the console
\* log entry 'Logging in with' {email, password}.
C16_SubmitLogsEnteredCredentials ==
    [][NewLogins # {} =>
           /\ NewLogins = {ApiClient_login(formEmail, formPassword)}
           /\ [text |-> "Logging in with", email |-> formEmail,
               password |-> formPassword] \in consoleLog']_vars

\* C17: the root page issues no redirect while the authentication state it
\* reads is loading; the loading ends, and then the page redirects exactly
\* once, to /dashboard when authenticated and to /login otherwise.
C17_RootPageRedirects ==
    /\ [](providers_useAuth.isLoading => rootPushes = <<>>)
    /\ [](Len(rootPushes) <= 1)
    /\ <>(~providers_useAuth.isLoading)
    /\ <>(rootPushes \in {<<"/dashboard">>, <<"/login">>})

C18_WitnessPage ==
    /\ WithAuth_render = "page"
    /\ guardSeen = <<WithAuth_deps>>

\* a step in which the logout request of providers/AuthProvider ended
LogoutSettled == authLogout \in pending /\ authLogout \notin pending'

\* C19: invoking logout always ends logged out: for the auth context, user
\* null, no token in memory or local storage, isAuthenticated false and a
\* navigation to /login; for providers/AuthProvider, user null and a
\* navigation to /login.
C19_LogoutEndsLoggedOut ==
    [][/\ logout =>
              /\ user' = NULL
              /\ apiToken' = NoToken
              /\ localStorage' = NoToken
              /\ ~isAuthenticated'
              /\ location' = "/login"
       /\ LogoutSettled =>
              /\ pUser' = NULL
              /\ location' = "/login"]_vars

\* C20: when the login of the auth context fails, the error is re-thrown to
\* the caller, the user and the token held in memory and in local storage
\* are the same as before the call, no navigation is issued, and isLoading
\* is false once the login has settled.
C20_FailedLoginChangesNothing ==
    [][\A r \in inflight :
          (/\ inflight' = inflight \ {r}
           /\ r.op = "login"
           /\ resp'.status \notin 200..299)
          => /\ thrown' = resp'.detail
             /\ user' = user
             /\ apiToken' = apiToken
             /\ localStorage' = localStorage
             /\ location' = location
             /\ ~isLoading']_vars

\* C21: a call of useAuth by a component with no enclosing provider of the
\* module fails with 'useAuth must be used within an AuthProvider', for
\* contexts/auth-context and for providers/AuthProvider alike.
C21_UseAuthOutsideProviderThrows ==
    (hookResult.module \in AuthModules /\ hookResult.module \notin mountedAbove) =>
        /\ hookResult.threw
        /\ hookResult.error = "useAuth must be used within an AuthProvider"

\* C22: once a login has established a session (token and user), the late
\* failure of a request that was issued with another token, or with none,
\* before the login completed neither clears the new token nor sets the
\* user to null.
C22_LateFailureKeepsNewSession ==
    [][\A r \in inflight :
          (/\ inflight' = inflight \ {r}
           /\ r.op \in {"initializeAuth", "refreshUser"}
           /\ resp'.status \notin 200..299
           /\ apiToken # NoToken
           /\ user # NULL
           /\ r.auth # apiToken)
          => /\ apiToken' = apiToken
             /\ localStorage' = localStorage
             /\ user' = user]_vars

\* C23: after logout has run, the response to a request that was in flight
\* when it ran (a pending login or refreshUser) does not re-establish a
\* session: while the client is logged out, such a response leaves user
\* null and the token cleared.
C23_LogoutIsFinal ==
    [][\A r \in inflight :
          (/\ inflight' = inflight \ {r}
           /\ r \in atLogout
           /\ user = NULL
           /\ apiToken = NoToken
           /\ localStorage = NoToken)
          => /\ user' = NULL
             /\ apiToken' = NoToken
             /\ localStorage' = NoToken]_vars

\* an authentication request of the auth context is in flight
AuthenticationPending == \E r \in inflight : r.op \in {"initializeAuth", "login"}

\* C24: in the auth context isLoading is true in every state in which the
\* initial check or a login is still in flight, and withAuth issues no
\* redirect to /login in such a state.
C24_LoadingWhileAuthenticating ==
    /\ [](AuthenticationPending => isLoading)
    /\ [][guardPushes' # guardPushes => ~AuthenticationPending]_vars

\* a login is in flight and the effect of withAuth has run in that state
C24_Witness ==
    /\ \E r \in inflight : r.op = "login"
    /\ isLoading
    /\ guardSeen = <<WithAuth_deps>>
    /\ WithAuth_render = "spinner"

C26_HeadingCountsListed ==
    ~pageLoading => totalClients = Cardinality(pageClients)
====
